---------------------------- MODULE Spec2Model ----------------------------
(***************************************************************************)
(* Model of the LoRa gateway packet logger (util_pkt_logger.c): the        *)
(* configuration mapper (setupconf, parse_SX1301_configuration,            *)
(* parse_gateway_configuration), the log writer (open_log), the            *)
(* acquisition loop (execute) and the signal handler (sig_handler).        *)
(*                                                                         *)
(* Reading of the source.  The text of execute() lacks one closing brace:  *)
(* the brace at line 462 (two tabs) closes the for loop of line 429 and    *)
(* the brace at line 477 closes the function, so the while loop of line    *)
(* 419 is closed between the two, as the indentation of lines 463-476      *)
(* shows.  The model follows that block structure.                         *)
(*                                                                         *)
(* The Hardware Boundary (the lgw calls), the JSON reader, the file system  *)
(* and the socket layer are the environment: their results are chosen      *)
(* nondeterministically by the actions that call them.                     *)
(*                                                                         *)
(* The transmit utility (util_tx_test.c) is a program of its own: its main *)
(* loop is modelled by the Tx actions and explored under SpecTx.           *)
(***************************************************************************)
EXTENDS Integers, Sequences, FiniteSets, TLC

(* ------------------------------------------------------------------ *)
(* Bounds of the exploration (not program constants)                   *)
(* ------------------------------------------------------------------ *)

\* slot objects that all documents of one run may contain together
MaxObjects == 2
\* frames the Hardware Boundary returns in one run
MaxFrames == 21
\* frames the Hardware Boundary returns in one poll (at most ARRAY_SIZE(rxpkt))
MaxNbPkt == 3
\* multi-SF channel slots chan_multiSF_0 .. that a document may contain
MultiDocSlots == 1
\* frames the Hardware Boundary returns in a run with signals and payloads
MaxFwdFrames == 3
\* frames the transmit utility is followed for (one above the range of its
\* 16-bit counter)
MaxTxFrames == 65537

(* ------------------------------------------------------------------ *)
(* Program constants                                                   *)
(* ------------------------------------------------------------------ *)

LGW_RF_CHAIN_NB == 2
LGW_MULTI_NB == 8
STD_CHAN == 8
FSK_CHAN == 9
RXPKT_SIZE == 16
WATCHDOG_THRESHOLD == 10

BW_UNDEFINED == 0
BW_500KHZ == 1
BW_250KHZ == 2
BW_125KHZ == 3
BW_62K5HZ == 4
BW_31K2HZ == 5
BW_15K6HZ == 6
BW_7K8HZ == 7

DR_UNDEFINED == 0
DR_LORA_SF7 == 2
DR_LORA_SF8 == 4
DR_LORA_SF9 == 8
DR_LORA_SF10 == 16
DR_LORA_SF11 == 32
DR_LORA_SF12 == 64

EXIT_SUCCESS == 0
EXIT_FAILURE == 1

\* forwarder: port of the endpoint, and the character '0' recvBuff is filled with
SERV_PORT == 1680
RECVBUFF_FILL == 48
\* uint8_t recvBuff[256] (line 390)
RECVBUFF_SIZE == 256
\* width of the gateway identity in the log file name (char lgwm_str[17])
LGWM_STR_DIGITS == 16

Doc == {"debug", "global", "local"}

(* ------------------------------------------------------------------ *)
(* JSON values as the mapper sees them                                 *)
(* ------------------------------------------------------------------ *)

\* a numeric field of a slot object: present with value n, or not a number
JNum(n) == [has |-> TRUE, n |-> n]
JNone == [has |-> FALSE, n |-> 0]

\* json_object_dotget_number: 0 when the field is absent or not a number
json_object_dotget_number(f) == IF f.has THEN f.n ELSE 0

\* the `enable` field: a JSON boolean, another JSON type, or absent
EnableKinds == {"true", "false", "nonbool", "absent"}

\* (uint32_t) of a JSON number: the numbers of the model's documents are
\* integers of 0 .. 2^31-1 in the fields that are converted, and the
\* conversion leaves such a number as it is
U32(n) == n

\* variant: a slot is enabled unless `enable` is the boolean false
EnableOfUnlessFalse(obj) == obj.enable # "false"

\* lines 137-141, 167-171, 195-199, 236-240
EnableOf(obj) == IF obj.enable \in {"true", "false"} THEN obj.enable = "true" ELSE FALSE

(* ------------------------------------------------------------------ *)
(* Bandwidth and data-rate lookup                                      *)
(* ------------------------------------------------------------------ *)

\* variant: the bandwidth is rounded up to the next LoRa bandwidth
LoRaBandwidthRounded(bw) ==
    IF bw <= 125000 THEN BW_125KHZ
    ELSE IF bw <= 250000 THEN BW_250KHZ
    ELSE IF bw <= 500000 THEN BW_500KHZ
    ELSE BW_UNDEFINED

\* lines 206-211
LoRaBandwidth(bw) ==
    CASE bw = 500000 -> BW_500KHZ
      [] bw = 250000 -> BW_250KHZ
      [] bw = 125000 -> BW_125KHZ
      [] OTHER -> BW_UNDEFINED

\* lines 213-221
LoRaDatarate(sf) ==
    CASE sf = 7 -> DR_LORA_SF7
      [] sf = 8 -> DR_LORA_SF8
      [] sf = 9 -> DR_LORA_SF9
      [] sf = 10 -> DR_LORA_SF10
      [] sf = 11 -> DR_LORA_SF11
      [] sf = 12 -> DR_LORA_SF12
      [] OTHER -> DR_UNDEFINED

\* variant: the thresholds are compared strictly
FskBandwidthStrict(bw) ==
    IF bw < 7800 THEN BW_7K8HZ
    ELSE IF bw < 15600 THEN BW_15K6HZ
    ELSE IF bw < 31200 THEN BW_31K2HZ
    ELSE IF bw < 62500 THEN BW_62K5HZ
    ELSE IF bw < 125000 THEN BW_125KHZ
    ELSE IF bw < 250000 THEN BW_250KHZ
    ELSE IF bw < 500000 THEN BW_500KHZ
    ELSE BW_UNDEFINED

\* lines 247-254
FskBandwidth(bw) ==
    IF bw <= 7800 THEN BW_7K8HZ
    ELSE IF bw <= 15600 THEN BW_15K6HZ
    ELSE IF bw <= 31200 THEN BW_31K2HZ
    ELSE IF bw <= 62500 THEN BW_62K5HZ
    ELSE IF bw <= 125000 THEN BW_125KHZ
    ELSE IF bw <= 250000 THEN BW_250KHZ
    ELSE IF bw <= 500000 THEN BW_500KHZ
    ELSE BW_UNDEFINED

(* ------------------------------------------------------------------ *)
(* Records submitted to the Hardware Boundary                          *)
(* ------------------------------------------------------------------ *)

\* memset(&rfconf, 0, sizeof(rfconf))
ZeroRf == [enable |-> FALSE, freq_hz |-> 0]
\* memset(&ifconf, 0, sizeof(ifconf))
ZeroIf == [enable |-> FALSE, rf_chain |-> 0, freq_hz |-> 0,
           bandwidth |-> 0, datarate |-> 0]

\* lines 127-148: the record built from the object radio_<i>
RfRecord(obj) ==
    IF EnableOf(obj)
    THEN [ZeroRf EXCEPT !.enable = TRUE,
                        !.freq_hz = U32(json_object_dotget_number(obj.freq))]
    ELSE ZeroRf

\* lines 157-181: the record built from the object chan_multiSF_<i>
MultiRecord(obj) ==
    IF EnableOf(obj)
    THEN [ZeroIf EXCEPT !.enable = TRUE,
                        !.rf_chain = U32(json_object_dotget_number(obj.radio)),
                        !.freq_hz = json_object_dotget_number(obj.if)]
    ELSE ZeroIf

\* lines 189-223: the record built from the object chan_Lora_std
StdRecord(obj) ==
    IF EnableOf(obj)
    THEN [enable |-> TRUE,
          rf_chain |-> U32(json_object_dotget_number(obj.radio)),
          freq_hz |-> json_object_dotget_number(obj.if),
          bandwidth |-> LoRaBandwidth(U32(json_object_dotget_number(obj.bandwidth))),
          datarate |-> LoRaDatarate(U32(json_object_dotget_number(obj.spread_factor)))]
    ELSE ZeroIf

\* lines 230-257: the record built from the object chan_FSK
FskRecord(obj) ==
    IF EnableOf(obj)
    THEN [enable |-> TRUE,
          rf_chain |-> U32(json_object_dotget_number(obj.radio)),
          freq_hz |-> json_object_dotget_number(obj.if),
          bandwidth |-> FskBandwidth(U32(json_object_dotget_number(obj.bandwidth))),
          datarate |-> U32(json_object_dotget_number(obj.datarate))]
    ELSE ZeroIf

(* ------------------------------------------------------------------ *)
(* Slot objects the documents of the model may contain                 *)
(* ------------------------------------------------------------------ *)

FreqFields == {JNone, JNum(868100000)}
RadioFields == {JNum(0), JNum(LGW_RF_CHAIN_NB)}
IfFields == {JNone, JNum(-200000)}
LoRaBwFields == {JNum(125000), JNum(124999)}
SfFields == {JNum(9), JNum(13)}
FskBwFields == {JNum(7800), JNum(500001)}
FskDrFields == {JNum(50000)}

\* a slot that holds no object (key absent, or its value is not an object)
NoObject == [present |-> FALSE, enable |-> "absent"]

RfObjects == [present : {TRUE}, enable : EnableKinds, freq : FreqFields]
MultiObjects == [present : {TRUE}, enable : EnableKinds, radio : RadioFields,
                 if : IfFields]
StdObjects == [present : {TRUE}, enable : EnableKinds, radio : RadioFields,
               if : {JNum(-200000)}, bandwidth : LoRaBwFields,
               spread_factor : SfFields]
FskObjects == [present : {TRUE}, enable : EnableKinds, radio : RadioFields,
               if : {JNum(-200000)}, bandwidth : FskBwFields,
               datarate : FskDrFields]


(* ------------------------------------------------------------------ *)
(* State                                                               *)
(* ------------------------------------------------------------------ *)

VARIABLES
    pc,                 \* position of the (single) thread of the process
    files,              \* file system: which documents are readable
    todo,               \* setupconf: documents still to parse, in order
    cur,                \* document being parsed (conf_file)
    i,                  \* loop index i of the function being executed
    conf_rc,            \* value returned by setupconf
    sx_rc,              \* value returned by the last parse_SX1301_configuration
    exec_rc,            \* value returned by execute
    lgwm,               \* gateway MAC address
    gw,                 \* gateway_conf as the last parse_gateway_configuration met it
    cfg,                \* Hardware Boundary: configuration it holds per slot
    run,                \* Hardware Boundary: lifecycle (idle, started, stopped)
    log_file,           \* log file handle: null, open or closed
    quit_sig,           \* abrupt shutdown flag
    exit_sig,           \* graceful shutdown flag
    nb_pkt,             \* execute: number of frames returned by the last poll
    corrupt_pkt_count,  \* execute: consecutive-corruption counter
    status,             \* exit status of the process once pc = "exited"
    lastObj,            \* history: slot object read by the last mapper step
    lastCall,           \* history: configuration call made by the last step
    hist,               \* history: per slot, the calls made for it
    opened,             \* history: documents opened by the JSON reader
    trace,              \* history of execute: calls made and events seen
    loopExit,           \* history: the flags as the loop test saw them on exit
    budget,             \* remaining slot objects and frames of this run
    probe,              \* argument and result of a lookup applied on its own
    p,                  \* execute: the frame of the batch being processed
    recvBuff,           \* execute: staging buffer (the bytes copied so far)
    socks,              \* socket layer: descriptors open in the process
    fwd,                \* history: socket calls made for the frame p
    fatal,              \* history: the fatal condition met, if any
    lgwm_str,           \* gateway identity as text, for the log file name
    log_file_name,      \* name of the log file
    log_start_time,     \* time the log was started at
    disk,               \* file system: the log file before and after open_log
    tx_pc,              \* util_tx_test: position of main
    repeat,             \* util_tx_test: number of frames asked for, -1 for no end
    cycle_count,        \* util_tx_test: frame counter (uint16_t)
    txpkt,              \* util_tx_test: bytes 4 and 5 of the payload of the frame
    tx_rc,              \* util_tx_test: value main returns
    tx                  \* util_tx_test: what the run did so far

confVars == <<files, todo, cur, conf_rc, sx_rc, lgwm, gw, cfg, lastObj, lastCall, hist,
              opened>>
loopVars == <<run, log_file, nb_pkt, corrupt_pkt_count, exec_rc, trace, loopExit>>
sigVars == <<quit_sig, exit_sig>>
fwdVars == <<p, recvBuff, socks, fwd>>
logVars == <<lgwm_str, log_file_name, log_start_time, disk>>
txVars == <<tx_pc, repeat, cycle_count, txpkt, tx_rc, tx>>
vars == <<pc, i, status, budget, probe, fatal, confVars, loopVars, sigVars, fwdVars, logVars,
          txVars>>

NoProbe == [fn |-> "none", a |-> 0, b |-> 0, done |-> FALSE, outA |-> 0, outB |-> 0]

LGW_HAL_SUCCESS == "LGW_HAL_SUCCESS"
LGW_HAL_ERROR == "LGW_HAL_ERROR"

RfSlots == 0 .. (LGW_RF_CHAIN_NB - 1)
IfSlots == 0 .. FSK_CHAN

NoCall == [made |-> FALSE]
RfCall(d, n, rec, res) == [made |-> TRUE, kind |-> "rf", doc |-> d, index |-> n,
                           rec |-> rec, res |-> res]
IfCall(d, n, rec, res) == [made |-> TRUE, kind |-> "if", doc |-> d, index |-> n,
                           rec |-> rec, res |-> res]

(* ------------------------------------------------------------------ *)
(* Hardware Boundary configuration setters (environment)               *)
(* ------------------------------------------------------------------ *)

\* an accepted record replaces the slot's configuration, a rejected one
\* leaves it as it was
lgw_rxrf_setconf(c, n, rec, res) ==
    IF res = LGW_HAL_SUCCESS
    THEN [c EXCEPT !.rf[n] = [set |-> TRUE, rec |-> rec]]
    ELSE c

lgw_rxif_setconf(c, n, rec, res) ==
    IF res = LGW_HAL_SUCCESS
    THEN [c EXCEPT !.ifc[n] = [set |-> TRUE, rec |-> rec]]
    ELSE c

\* history of the submissions of one slot: document, record and result of
\* each call, in the order of the calls
Submitted(h, d, rec, res) == Append(h, [doc |-> d, rec |-> rec, res |-> res])

(* ------------------------------------------------------------------ *)
(* setupconf                                                           *)
(* ------------------------------------------------------------------ *)

\* access(fname, R_OK) == 0
Readable(f, d) == f[d]

\* variant: the other documents are parsed after the debug document
DocOrderCascadeAfterDebug(f) ==
    (IF Readable(f, "debug") THEN <<"debug">> ELSE <<>>)
    \o (IF Readable(f, "global") THEN <<"global">> ELSE <<>>)
    \o (IF Readable(f, "local") THEN <<"local">> ELSE <<>>)

\* variant: the local document is parsed before the global document
DocOrderLocalFirst(f) ==
    IF Readable(f, "debug") THEN <<"debug">>
    ELSE (IF Readable(f, "local") THEN <<"local">> ELSE <<>>)
         \o (IF Readable(f, "global") THEN <<"global">> ELSE <<>>)

\* lines 340-363: the documents setupconf parses, in order
DocOrder(f) ==
    IF Readable(f, "debug") THEN <<"debug">>
    ELSE IF Readable(f, "global")
         THEN IF Readable(f, "local") THEN <<"global", "local">> ELSE <<"global">>
    ELSE IF Readable(f, "local") THEN <<"local">>
    ELSE <<>>

\* variant: setupconf reports success when no document was found
SetupconfReturnZero(order) == 0

\* lines 360-365: value returned by setupconf
SetupconfReturn(order) == IF order = <<>> THEN EXIT_FAILURE ELSE 0

\* setupconf, lines 331-366, up to the first parse call or the return
Setupconf ==
    /\ pc = "setupconf"
    /\ LET order == DocOrder(files) IN
        /\ todo' = order
        /\ conf_rc' = SetupconfReturn(order)
        /\ IF order = <<>>
           THEN /\ pc' = "main_conf"
                /\ cur' = cur
           ELSE /\ pc' = "sx_open"
                /\ cur' = Head(order)
    /\ fatal' = IF DocOrder(files) = <<>> THEN "noconf" ELSE fatal
    /\ lastObj' = NoObject
    /\ lastCall' = NoCall
    /\ UNCHANGED <<probe, txVars, fwdVars, logVars, i, status, budget, files, sx_rc, lgwm, gw, cfg, hist,
                   opened, loopVars, sigVars>>

(* ------------------------------------------------------------------ *)
(* parse_SX1301_configuration                                          *)
(* ------------------------------------------------------------------ *)

NotReturned == [returned |-> FALSE, value |-> 0]
Returned(v) == [returned |-> TRUE, value |-> v]

\* lines 111-123: read the document (it may not be valid JSON), look up
\* SX1301_conf
ParseSxOpen ==
    /\ pc = "sx_open"
    /\ opened' = opened \cup {cur}
    /\ lastObj' = NoObject
    /\ lastCall' = NoCall
    /\ \E validJson \in BOOLEAN, hasConf \in BOOLEAN :
         IF ~validJson
         THEN /\ hasConf
              /\ pc' = "exited"
              /\ status' = EXIT_FAILURE
              /\ fatal' = "json"
              /\ UNCHANGED <<i, sx_rc>>
         ELSE /\ status' = status
              /\ fatal' = fatal
              /\ IF hasConf
                 THEN pc' = "sx_rf" /\ i' = 0 /\ sx_rc' = NotReturned
                 ELSE pc' = "gw_open" /\ i' = i /\ sx_rc' = Returned(-1)
    /\ UNCHANGED <<probe, txVars, fwdVars, logVars, budget, files, todo, cur, conf_rc, lgwm, gw, cfg, hist,
                   loopVars, sigVars>>

\* variant: a slot without object is submitted as a disabled slot
HasObjectAlways(obj) == TRUE

\* lines 130-133, 160-163, 191, 232: a slot is configured only when the
\* document holds an object for it
HasObject(obj) == obj.present

\* variant: a rejection ends the parsing of the document
AfterSetconfAbort(res) == IF res = LGW_HAL_SUCCESS THEN "continue" ELSE "abort"

\* lines 150-152, 183-185, 224-226, 258-260: a rejection is only reported
AfterSetconf(res) == "continue"

\* the objects a document may hold for a slot, within the budget
Within(objs) == {NoObject} \cup (IF budget.objects > 0 THEN objs ELSE {})
Spend(obj) == IF obj.present
              THEN [budget EXCEPT !.objects = @ - 1]
              ELSE budget

\* lines 126-153: one iteration of the loop over the radio chains
ParseRadio ==
    /\ pc = "sx_rf"
    /\ \E obj \in Within(RfObjects), res \in {LGW_HAL_SUCCESS, LGW_HAL_ERROR} :
         /\ lastObj' = obj
         /\ budget' = Spend(obj)
         /\ IF HasObject(obj)
            THEN LET rfconf == RfRecord(obj) IN
                 /\ cfg' = lgw_rxrf_setconf(cfg, i, rfconf, res)
                 /\ hist' = [hist EXCEPT !.rf[i] = Submitted(@, cur, rfconf, res)]
                 /\ lastCall' = RfCall(cur, i, rfconf, res)
                 /\ IF AfterSetconf(res) = "continue"
                    THEN /\ sx_rc' = sx_rc
                         /\ IF i + 1 < LGW_RF_CHAIN_NB
                            THEN pc' = pc /\ i' = i + 1
                            ELSE pc' = "sx_multi" /\ i' = 0
                    ELSE pc' = "gw_open" /\ i' = i /\ sx_rc' = Returned(-1)
            ELSE /\ res = LGW_HAL_SUCCESS
                 /\ UNCHANGED <<cfg, hist, sx_rc>>
                 /\ lastCall' = NoCall
                 /\ IF i + 1 < LGW_RF_CHAIN_NB
                    THEN pc' = pc /\ i' = i + 1
                    ELSE pc' = "sx_multi" /\ i' = 0
    /\ UNCHANGED <<probe, txVars, fatal, fwdVars, logVars, status, files, todo, cur, conf_rc, lgwm, gw, opened, loopVars, sigVars>>

\* lines 156-186: one iteration of the loop over the multi-SF channels
ParseMulti ==
    /\ pc = "sx_multi"
    /\ \E obj \in (IF i < MultiDocSlots THEN Within(MultiObjects) ELSE {NoObject}),
          res \in {LGW_HAL_SUCCESS, LGW_HAL_ERROR} :
         /\ lastObj' = obj
         /\ budget' = Spend(obj)
         /\ IF HasObject(obj)
            THEN LET ifconf == MultiRecord(obj) IN
                 /\ cfg' = lgw_rxif_setconf(cfg, i, ifconf, res)
                 /\ hist' = [hist EXCEPT !.ifc[i] = Submitted(@, cur, ifconf, res)]
                 /\ lastCall' = IfCall(cur, i, ifconf, res)
                 /\ IF AfterSetconf(res) = "continue"
                    THEN /\ sx_rc' = sx_rc
                         /\ IF i + 1 < LGW_MULTI_NB
                            THEN pc' = pc /\ i' = i + 1
                            ELSE pc' = "sx_std" /\ i' = i + 1
                    ELSE pc' = "gw_open" /\ i' = i /\ sx_rc' = Returned(-1)
            ELSE /\ res = LGW_HAL_SUCCESS
                 /\ UNCHANGED <<cfg, hist, sx_rc>>
                 /\ lastCall' = NoCall
                 /\ IF i + 1 < LGW_MULTI_NB
                    THEN pc' = pc /\ i' = i + 1
                    ELSE pc' = "sx_std" /\ i' = i + 1
    /\ UNCHANGED <<probe, txVars, fatal, fwdVars, logVars, status, files, todo, cur, conf_rc, lgwm, gw, opened, loopVars, sigVars>>

\* lines 188-227: the LoRa standard channel, Hardware Boundary channel 8
ParseStd ==
    /\ pc = "sx_std"
    /\ \E obj \in Within(StdObjects), res \in {LGW_HAL_SUCCESS, LGW_HAL_ERROR} :
         /\ lastObj' = obj
         /\ budget' = Spend(obj)
         /\ IF HasObject(obj)
            THEN LET ifconf == StdRecord(obj) IN
                 /\ cfg' = lgw_rxif_setconf(cfg, STD_CHAN, ifconf, res)
                 /\ hist' = [hist EXCEPT !.ifc[STD_CHAN] = Submitted(@, cur, ifconf, res)]
                 /\ lastCall' = IfCall(cur, STD_CHAN, ifconf, res)
                 /\ IF AfterSetconf(res) = "continue"
                    THEN pc' = "sx_fsk" /\ sx_rc' = sx_rc
                    ELSE pc' = "gw_open" /\ sx_rc' = Returned(-1)
            ELSE /\ res = LGW_HAL_SUCCESS
                 /\ UNCHANGED <<cfg, hist, sx_rc>>
                 /\ lastCall' = NoCall
                 /\ pc' = "sx_fsk"
    /\ UNCHANGED <<probe, txVars, fatal, fwdVars, logVars, i, status, files, todo, cur, conf_rc, lgwm, gw, opened, loopVars, sigVars>>

\* lines 229-264: the FSK channel, Hardware Boundary channel 9, and return 0
ParseFsk ==
    /\ pc = "sx_fsk"
    /\ \E obj \in Within(FskObjects), res \in {LGW_HAL_SUCCESS, LGW_HAL_ERROR} :
         /\ lastObj' = obj
         /\ budget' = Spend(obj)
         /\ IF HasObject(obj)
            THEN LET ifconf == FskRecord(obj) IN
                 /\ cfg' = lgw_rxif_setconf(cfg, FSK_CHAN, ifconf, res)
                 /\ hist' = [hist EXCEPT !.ifc[FSK_CHAN] = Submitted(@, cur, ifconf, res)]
                 /\ lastCall' = IfCall(cur, FSK_CHAN, ifconf, res)
                 /\ sx_rc' = IF AfterSetconf(res) = "continue"
                             THEN Returned(0) ELSE Returned(-1)
            ELSE /\ res = LGW_HAL_SUCCESS
                 /\ UNCHANGED <<cfg, hist>>
                 /\ lastCall' = NoCall
                 /\ sx_rc' = Returned(0)
    /\ pc' = "gw_open"
    /\ UNCHANGED <<probe, txVars, fatal, fwdVars, logVars, i, status, files, todo, cur, conf_rc, lgwm, gw, opened, loopVars, sigVars>>


(* ------------------------------------------------------------------ *)
(* parse_gateway_configuration                                         *)
(* ------------------------------------------------------------------ *)

\* a gateway_ID string: its characters as hexadecimal digit values, with
\* NotHex standing for any character that is not a hexadecimal digit
NotHex == 16
GatewayIds == {<<NotHex, 10>>, <<10, NotHex>>, <<10, 11>>}

\* what the last parse_gateway_configuration met: whether the document has a
\* gateway_conf object, whether that object has a gateway_ID string and its
\* text, the identity before the call, and whether the call killed the process
NoGateway == [section |-> FALSE, given |-> FALSE, text |-> <<>>, before |-> 0,
              killed |-> FALSE]

\* sscanf(.., "%llx", &ull): value of the longest prefix of hexadecimal
\* digits; ull keeps its initial value 0 when that prefix is empty (the
\* strings of the model are shorter than 16 digits: no 64-bit overflow)
RECURSIVE HexPrefix(_, _)
HexPrefix(str, acc) ==
    IF str = <<>> \/ Head(str) = NotHex
    THEN acc
    ELSE HexPrefix(Tail(str), acc * 16 + Head(str))

\* documents left after the current one: setupconf goes on or returns
NextDocument ==
    /\ todo' = Tail(todo)
    /\ IF Tail(todo) = <<>>
       THEN pc' = "main_conf" /\ cur' = cur
       ELSE pc' = "sx_open" /\ cur' = Head(Tail(todo))

\* lines 266-295; the document was parsed at line 111 already, so that the
\* reader does not fail at line 274
ParseGateway ==
    /\ pc = "gw_open"
    /\ lastObj' = NoObject
    /\ lastCall' = NoCall
    /\ opened' = opened \cup {cur}
    /\ \/ \* no gateway_conf object: return -1
          /\ NextDocument
          /\ gw' = [NoGateway EXCEPT !.before = lgwm]
          /\ UNCHANGED <<lgwm, status>>
       \/ \* gateway_ID is a string
          \E id \in GatewayIds :
             /\ lgwm' = HexPrefix(id, 0)
             /\ gw' = [section |-> TRUE, given |-> TRUE, text |-> id, before |-> lgwm,
                       killed |-> FALSE]
             /\ NextDocument
             /\ status' = status
       \/ \* gateway_ID is absent: sscanf reads through a null pointer, which
          \* is undefined; the process is killed, or goes on with some value
          \/ /\ pc' = "crashed"
             /\ gw' = [section |-> TRUE, given |-> FALSE, text |-> <<>>, before |-> lgwm,
                       killed |-> TRUE]
             /\ UNCHANGED <<lgwm, status, todo, cur>>
          \/ \E id \in GatewayIds :
                /\ lgwm' = HexPrefix(id, 0)
                /\ gw' = [section |-> TRUE, given |-> FALSE, text |-> <<>>,
                          before |-> lgwm, killed |-> FALSE]
                /\ NextDocument
                /\ status' = status
    /\ UNCHANGED <<probe, txVars, fatal, fwdVars, logVars, i, budget, files, conf_rc, sx_rc, cfg, hist, loopVars, sigVars>>

(* ------------------------------------------------------------------ *)
(* Caller of setupconf, open_log and execute                           *)
(* ------------------------------------------------------------------ *)

\* the digits of n written in hexadecimal on width characters ("%0<width>llX")
RECURSIVE HexDigits(_, _)
HexDigits(n, width) ==
    IF width = 0 THEN <<>> ELSE Append(HexDigits(n \div 16, width - 1), n % 16)

\* a failed configuration load ends the process; otherwise the gateway
\* identity is written to lgwm_str and the log is opened
MainAfterConf ==
    /\ pc = "main_conf"
    /\ IF conf_rc # 0
       THEN pc' = "exited" /\ status' = EXIT_FAILURE /\ lgwm_str' = lgwm_str
       ELSE pc' = "open_log" /\ status' = status
            /\ lgwm_str' = HexDigits(lgwm, LGWM_STR_DIGITS)
    \* the documents are closed: what the last one held is not kept
    /\ gw' = NoGateway
    /\ UNCHANGED <<probe, txVars, fatal, fwdVars, log_file_name, log_start_time, disk, i, budget,
                   files, todo, cur, conf_rc, sx_rc, lgwm, cfg, lastObj, lastCall, hist,
                   opened, loopVars, sigVars>>

\* the process ends with the value execute returned
MainExit ==
    /\ pc = "main_exit"
    /\ pc' = "exited"
    /\ status' = exec_rc
    /\ UNCHANGED <<probe, txVars, fatal, fwdVars, logVars, i, budget, confVars, loopVars, sigVars>>

(* ------------------------------------------------------------------ *)
(* open_log                                                            *)
(* ------------------------------------------------------------------ *)

\* line 313: the header row
Header == <<"gateway ID", "node MAC", "UTC timestamp", "us count", "frequency",
            "RF chain", "RX chain", "status", "size", "modulation", "bandwidth",
            "datarate", "coderate", "RSSI", "SNR", "payload">>

\* the log file as open_log finds it: absent, or left by an earlier run
NoFile == [exists |-> FALSE, rows |-> <<>>]
EarlierLog == [exists |-> TRUE, rows |-> <<Header, <<"row">>>>]

\* line 301: now_time as a date (days since the epoch, seconds of the day)
IsoDate(t) == [day |-> t \div 86400, sec |-> t % 86400]

\* variant: the name of line 305, with the date the log is started at
LogFileNameDated(str, iso_date) ==
    [prefix |-> "pktlog_", id |-> str, date |-> <<iso_date>>, suffix |-> ".csv"]

\* line 306: the name of the log file
LogFileName(str, iso_date) ==
    [prefix |-> "pktlog_", id |-> str, date |-> <<>>, suffix |-> ".csv"]

\* variant: the file is opened for writing from its start
FopenTruncate(file) == [exists |-> TRUE, rows |-> <<>>]

\* line 307: fopen(.., "a") creates the file or keeps what it holds
FopenAppend(file) == [exists |-> TRUE, rows |-> file.rows]

\* lines 297-321
OpenLog ==
    /\ pc = "open_log"
    /\ \E now_time \in budget.times, file \in budget.files,
          fopenOk \in BOOLEAN, fprintfOk \in BOOLEAN :
         /\ log_start_time' = now_time
         /\ log_file_name' = LogFileName(lgwm_str, IsoDate(now_time))
         /\ IF ~fopenOk
            THEN /\ fprintfOk
                 /\ disk' = [before |-> file, now |-> file]
                 /\ log_file' = log_file
                 /\ pc' = "exited"
                 /\ status' = EXIT_FAILURE
                 /\ fatal' = "fopen"
            ELSE IF ~fprintfOk
            THEN /\ disk' = [before |-> file, now |-> FopenAppend(file)]
                 /\ log_file' = "open"
                 /\ pc' = "exited"
                 /\ status' = EXIT_FAILURE
                 /\ fatal' = "header"
            ELSE /\ disk' = [before |-> file,
                             now |-> [FopenAppend(file) EXCEPT !.rows = Append(@, Header)]]
                 /\ log_file' = "open"
                 /\ pc' = "execute"
                 /\ status' = status
                 /\ fatal' = fatal
    /\ UNCHANGED <<probe, txVars, fwdVars, lgwm_str, i, budget, confVars, run, nb_pkt,
                   corrupt_pkt_count, exec_rc, trace, loopExit, sigVars>>

(* ------------------------------------------------------------------ *)
(* sig_handler                                                         *)
(* ------------------------------------------------------------------ *)

Signals == {"SIGQUIT", "SIGINT", "SIGTERM"}

\* the handler is installed by execute (lines 400-406) and stays installed
HandlerInstalled == pc \in {"loop", "receive", "frame", "socket", "connect", "write",
                            "close", "after_loop", "fclose", "main_exit"}

\* variant: SIGQUIT asks for the clean shutdown as well
sig_handlerQuitCleans(sigio) ==
    /\ HandlerInstalled
    /\ budget.signals
    /\ IF sigio = "SIGQUIT"
       THEN quit_sig' = 1 /\ exit_sig' = 1
       ELSE IF sigio = "SIGINT" \/ sigio = "SIGTERM"
            THEN exit_sig' = 1 /\ quit_sig' = quit_sig
            ELSE UNCHANGED <<quit_sig, exit_sig>>
    /\ UNCHANGED <<probe, txVars, fatal, fwdVars, logVars, pc, i, status, budget, confVars, loopVars>>

\* lines 90-96
sig_handler(sigio) ==
    /\ HandlerInstalled
    /\ budget.signals
    /\ IF sigio = "SIGQUIT"
       THEN quit_sig' = 1 /\ exit_sig' = exit_sig
       ELSE IF sigio = "SIGINT" \/ sigio = "SIGTERM"
            THEN exit_sig' = 1 /\ quit_sig' = quit_sig
            ELSE UNCHANGED <<quit_sig, exit_sig>>
    /\ UNCHANGED <<probe, txVars, fatal, fwdVars, logVars, pc, i, status, budget, confVars, loopVars>>

Signal == \E sigio \in Signals : sig_handler(sigio)

(* ------------------------------------------------------------------ *)
(* execute                                                             *)
(* ------------------------------------------------------------------ *)

STAT_CRC_OK == "STAT_CRC_OK"
STAT_CRC_BAD == "STAT_CRC_BAD"
STAT_NO_CRC == "STAT_NO_CRC"
FrameStatus == {STAT_CRC_OK, STAT_CRC_BAD, STAT_NO_CRC}

\* lines 393-398: the endpoint of the forwarder
serv_addr == [sin_family |-> "AF_INET", sin_port |-> SERV_PORT, sin_addr |-> <<127, 0, 0, 1>>]

\* a frame of rxpkt: status, size and the first size bytes of the payload
Frames ==
    {[status |-> st, size |-> Len(pl), payload |-> pl] :
        st \in FrameStatus, pl \in budget.payloads}
NoFrame == [status |-> "none", size |-> 0, payload |-> <<>>]
\* the payload of a frame that reports one byte more than recvBuff holds
LongPayload == [j \in 1 .. RECVBUFF_SIZE + 1 |-> 69]

\* handling of the frame being processed, as seen from outside the process
NoForward == [sockets |-> 0, connects |-> <<>>, writes |-> <<>>, closes |-> 0,
              failure |-> "none"]

\* recvBuff[j] (index from 0): the bytes written by the copy loop so far are
\* kept, the others hold the character '0' of line 391
RecvBuffAt(buf, j) == IF j < Len(buf) THEN buf[j + 1] ELSE RECVBUFF_FILL

\* lines 434-438: recvBuff after the copy of the first size bytes of payload
CopyPayload(buf, frame) ==
    [j \in 1 .. (IF Len(buf) > frame.size THEN Len(buf) ELSE frame.size) |->
        IF j <= frame.size THEN frame.payload[j] ELSE buf[j]]

\* variant: the write sends every byte the staging buffer has received
WrittenBytesWhole(buf, frame) ==
    [j \in 1 .. (IF Len(buf) > frame.size THEN Len(buf) ELSE frame.size) |->
        RecvBuffAt(buf, j - 1)]

\* line 452: the bytes handed to write: the first size bytes of recvBuff
WrittenBytes(buf, frame) == [j \in 1 .. frame.size |-> RecvBuffAt(buf, j - 1)]

\* variant: a failed poll ends execute as a shutdown does
ExecuteReturnPollOk(cause) ==
    CASE cause = "start" -> EXIT_FAILURE
      [] cause = "socket" -> 1
      [] cause = "connect" -> 1
      [] OTHER -> EXIT_SUCCESS

\* value execute returns, by the reason it returns for
ExecuteReturn(cause) ==
    CASE cause = "start" -> EXIT_FAILURE
      [] cause = "poll" -> EXIT_FAILURE
      [] cause = "socket" -> 1
      [] cause = "connect" -> 1
      [] OTHER -> EXIT_SUCCESS

\* variant: a failed start is reported and the loop is entered all the same
OnStartErrorGoesOn(rc) == [pc |-> "loop", rc |-> rc]

\* lines 413-416: a failed start makes execute return
OnStartError(rc) == [pc |-> "main_exit", rc |-> ExecuteReturn("start")]

\* lines 371-416: set-up, installation of the handler, lgw_start
ExecuteStart ==
    /\ pc = "execute"
    /\ corrupt_pkt_count' = 0
    /\ recvBuff' = <<>>
    /\ \E res \in {LGW_HAL_SUCCESS, LGW_HAL_ERROR} :
         IF res = LGW_HAL_SUCCESS
         THEN /\ run' = "started"
              /\ pc' = "loop"
              /\ UNCHANGED <<exec_rc, fatal>>
         ELSE /\ run' = run
              /\ pc' = OnStartError(exec_rc).pc
              /\ exec_rc' = OnStartError(exec_rc).rc
              /\ fatal' = "start"
    /\ trace' = [trace EXCEPT !.starts = @ + 1]
    /\ UNCHANGED <<probe, txVars, i, status, budget, confVars, logVars, log_file, nb_pkt, loopExit,
                   sigVars, p, socks, fwd>>

\* variant: only the graceful flag ends the loop
LoopContinuesUnlessExit(q, e) == e # 1

\* line 419: the loop goes on while neither flag is set
LoopContinues(q, e) == (q # 1) /\ (e # 1)

\* line 419
LoopTest ==
    /\ pc = "loop"
    /\ IF LoopContinues(quit_sig, exit_sig)
       THEN pc' = "receive" /\ loopExit' = loopExit
       ELSE pc' = "after_loop"
            /\ loopExit' = [left |-> TRUE, quit |-> quit_sig, exit |-> exit_sig]
    /\ UNCHANGED <<probe, txVars, fatal, i, status, budget, confVars, logVars, run, log_file, nb_pkt,
                   corrupt_pkt_count, exec_rc, trace, sigVars, fwdVars>>

Min(a, b) == IF a < b THEN a ELSE b

\* variant: a failed poll is tried again
OnPollErrorRetry(rc) == [pc |-> "loop", rc |-> rc]

\* lines 422-424: a failed poll makes execute return
OnPollError(rc) == [pc |-> "main_exit", rc |-> ExecuteReturn("poll")]

\* lines 421-427: poll; the for loop of line 429 is not entered for 0 frames
Receive ==
    /\ pc = "receive"
    /\ \/ /\ pc' = OnPollError(exec_rc).pc
          /\ exec_rc' = OnPollError(exec_rc).rc
          /\ fatal' = "poll"
          /\ trace' = [trace EXCEPT
                         !.pollFailed = TRUE,
                         !.requested = RXPKT_SIZE,
                         !.pollsAfterFlag =
                             IF LoopContinues(quit_sig, exit_sig) THEN @ ELSE Min(@ + 1, 2)]
          /\ UNCHANGED <<nb_pkt, i, budget>>
       \/ \E n \in 0 .. Min(Min(MaxNbPkt, RXPKT_SIZE), budget.frames) :
             /\ nb_pkt' = n
             /\ i' = 0
             /\ budget' = [budget EXCEPT !.frames = @ - n]
             /\ pc' = IF 0 < n THEN "frame" ELSE "loop"
             /\ trace' = [trace EXCEPT
                            !.requested = RXPKT_SIZE,
                            !.pollsAfterFlag =
                                IF LoopContinues(quit_sig, exit_sig) THEN @ ELSE Min(@ + 1, 2)]
             /\ UNCHANGED <<exec_rc, fatal>>
    /\ UNCHANGED <<probe, txVars, status, confVars, logVars, run, log_file, corrupt_pkt_count, loopExit,
                   sigVars, fwdVars>>

\* variant: the loop over the batch stops when a shutdown flag is set
ForContinuesUnlessFlag(k, n, q, e) == k < n /\ LoopContinues(q, e)

\* line 429: the loop over the batch goes on while frames are left
ForContinues(k, n, q, e) == k < n

\* line 429, ++i and test: next frame of the batch, or back to the while
NextFrame ==
    /\ i' = i + 1
    /\ pc' = IF ForContinues(i + 1, nb_pkt, quit_sig, exit_sig) THEN "frame" ELSE "loop"

\* variant: the diagnostic is printed from the threshold on
WatchdogFiresFrom(count) == count >= WATCHDOG_THRESHOLD

\* line 458: the diagnostic is printed when the counter equals the threshold
WatchdogFires(count) == count = WATCHDOG_THRESHOLD

\* variant: every frame is forwarded
ForwardsAll(st) == TRUE

\* line 431: the frames that are forwarded
Forwards(st) == st = STAT_CRC_OK

\* lines 430-438 and 456-461: one frame of the batch is read and classified;
\* a valid frame is copied to recvBuff, another one is counted
Frame ==
    /\ pc = "frame"
    /\ \E frame \in Frames :
         /\ p' = frame
         /\ fwd' = NoForward
         /\ IF Forwards(frame.status)
            THEN /\ corrupt_pkt_count' = 0
                 /\ recvBuff' = CopyPayload(recvBuff, frame)
                 /\ trace' = [trace EXCEPT
                                !.badRun = 0, !.diagsInRun = 0, !.lastFrame = "valid",
                                !.frames = @ + 1,
                                !.lateFrames = IF LoopContinues(quit_sig, exit_sig)
                                               THEN @ ELSE @ + 1]
                 /\ \/ pc' = "socket"
                    \/ \* recvBuff[j] with j outside the array is undefined: the
                       \* process is killed, or goes on with the byte written
                       /\ frame.size > RECVBUFF_SIZE
                       /\ pc' = "crashed"
                 /\ i' = i
            ELSE /\ corrupt_pkt_count' = corrupt_pkt_count + 1
                 /\ recvBuff' = recvBuff
                 /\ trace' = [trace EXCEPT
                                !.frames = @ + 1,
                                !.lateFrames = IF LoopContinues(quit_sig, exit_sig)
                                               THEN @ ELSE @ + 1,
                                !.badRun = @ + 1,
                                !.diags = IF WatchdogFires(corrupt_pkt_count + 1)
                                          THEN @ + 1 ELSE @,
                                !.diagsInRun = IF WatchdogFires(corrupt_pkt_count + 1)
                                               THEN @ + 1 ELSE @,
                                !.lastFrame = IF WatchdogFires(corrupt_pkt_count + 1)
                                              THEN "diag" ELSE "bad"]
                 /\ NextFrame
    /\ UNCHANGED <<probe, txVars, fatal, status, budget, confVars, logVars, run, log_file, nb_pkt,
                   exec_rc, loopExit, sigVars, socks>>

\* lines 440-443: socket()
Socket ==
    /\ pc = "socket"
    /\ \E ok \in BOOLEAN :
         IF ok
         THEN /\ socks' = socks + 1
              /\ fwd' = [fwd EXCEPT !.sockets = @ + 1]
              /\ pc' = "connect"
              /\ UNCHANGED <<exec_rc, fatal>>
         ELSE /\ socks' = socks
              /\ fwd' = [fwd EXCEPT !.failure = "socket"]
              /\ pc' = "main_exit"
              /\ exec_rc' = ExecuteReturn("socket")
              /\ fatal' = "socket"
    /\ UNCHANGED <<probe, txVars, i, status, budget, confVars, logVars, run, log_file, nb_pkt,
                   corrupt_pkt_count, trace, loopExit, sigVars, p, recvBuff>>

\* lines 445-448: connect() to serv_addr
Connect ==
    /\ pc = "connect"
    /\ \E ok \in BOOLEAN :
         IF ok
         THEN /\ fwd' = [fwd EXCEPT !.connects = Append(@, serv_addr)]
              /\ trace' = [trace EXCEPT !.lastConn = trace.frames]
              /\ pc' = "write"
              /\ UNCHANGED <<exec_rc, fatal>>
         ELSE /\ fwd' = [fwd EXCEPT !.failure = "connect"]
              /\ trace' = trace
              /\ pc' = "main_exit"
              /\ exec_rc' = ExecuteReturn("connect")
              /\ fatal' = "connect"
    /\ UNCHANGED <<probe, txVars, i, status, budget, confVars, logVars, run, log_file, nb_pkt,
                   corrupt_pkt_count, loopExit, sigVars, p, recvBuff, socks>>

\* lines 450-453: write() of the staged bytes; its result is not looked at
Write ==
    /\ pc = "write"
    /\ IF p.size > 0
       THEN \E ok \in BOOLEAN :
              fwd' = [fwd EXCEPT !.writes = Append(@, WrittenBytes(recvBuff, p)),
                                 !.failure = IF ok THEN @ ELSE "write"]
       ELSE fwd' = fwd
    /\ pc' = "close"
    /\ UNCHANGED <<probe, txVars, fatal, i, status, budget, confVars, logVars, run, log_file, nb_pkt,
                   corrupt_pkt_count, exec_rc, trace, loopExit, sigVars, p, recvBuff, socks>>

\* line 455: close(), then the next frame
Close ==
    /\ pc = "close"
    /\ socks' = socks - 1
    /\ fwd' = [fwd EXCEPT !.closes = @ + 1]
    /\ NextFrame
    /\ UNCHANGED <<probe, txVars, fatal, status, budget, confVars, logVars, run, log_file, nb_pkt,
                   corrupt_pkt_count, exec_rc, trace, loopExit, sigVars, p, recvBuff>>

\* variant: the abrupt flag wins over the graceful one
CleansUpUnlessQuit(e) == e = 1 /\ quit_sig # 1

\* variant: the clean-up is done whatever the graceful flag
CleansUpAlways(e) == TRUE

\* line 463: the clean-up is done when the graceful flag is set
CleansUp(e) == e = 1

\* lines 463-470: test of the graceful flag and lgw_stop
AfterLoop ==
    /\ pc = "after_loop"
    /\ IF CleansUp(exit_sig)
       THEN \E res \in {LGW_HAL_SUCCESS, LGW_HAL_ERROR} :
              /\ run' = IF res = LGW_HAL_SUCCESS THEN "stopped" ELSE run
              /\ trace' = [trace EXCEPT !.stops = @ + 1, !.stopRes = res,
                                        !.exitTested = exit_sig]
              /\ pc' = "fclose"
              /\ exec_rc' = exec_rc
       ELSE /\ pc' = "main_exit"
            /\ exec_rc' = ExecuteReturn("flag")
            /\ trace' = [trace EXCEPT !.exitTested = exit_sig]
            /\ run' = run
    /\ UNCHANGED <<probe, txVars, fatal, i, status, budget, confVars, logVars, log_file, nb_pkt,
                   corrupt_pkt_count, loopExit, sigVars, fwdVars>>

\* lines 471-476: fclose and return
CloseLog ==
    /\ pc = "fclose"
    /\ log_file' = "closed"
    /\ trace' = [trace EXCEPT !.closes = @ + 1]
    /\ pc' = "main_exit"
    /\ exec_rc' = ExecuteReturn("flag")
    /\ UNCHANGED <<probe, txVars, fatal, i, status, budget, confVars, logVars, run, nb_pkt,
                   corrupt_pkt_count, loopExit, sigVars, fwdVars>>

(* ------------------------------------------------------------------ *)
(* Specification                                                       *)
(* ------------------------------------------------------------------ *)

\* The runs explored are of five kinds: any set of readable documents
\* holding up to MaxObjects slot objects, with a silent radio and no signal;
\* a local document without slot objects, with up to MaxFrames frames of one
\* payload and no signal; the same document with up to MaxFwdFrames frames
\* of several payloads and signals delivered at any time; and the same
\* document with a silent radio, started at several times with a log file
\* that may exist already; and the same document with up to MaxNbPkt frames,
\* some of which report a size above the capacity of the staging buffer.
ConfScenarios ==
    [files : [Doc -> BOOLEAN],
     budget : {[objects |-> MaxObjects, frames |-> 0, signals |-> FALSE,
                payloads |-> {<<65>>}, files |-> {NoFile}, times |-> {0}]}]
RunScenarios ==
    [files : {[d \in Doc |-> d = "local"]},
     budget : {[objects |-> 0, frames |-> MaxFrames, signals |-> FALSE,
                payloads |-> {<<65>>}, files |-> {NoFile}, times |-> {0}]}]
FwdScenarios ==
    [files : {[d \in Doc |-> d = "local"]},
     budget : {[objects |-> 0, frames |-> MaxFwdFrames, signals |-> TRUE,
                payloads |-> {<<>>, <<66, 67>>, <<68>>},
                files |-> {NoFile}, times |-> {0}]}]
LogScenarios ==
    [files : {[d \in Doc |-> d = "local"]},
     budget : {[objects |-> 0, frames |-> 0, signals |-> FALSE,
                payloads |-> {<<65>>}, files |-> {NoFile, EarlierLog},
                times |-> {0, 86400}]}]
LongScenarios ==
    [files : {[d \in Doc |-> d = "local"]},
     budget : {[objects |-> 0, frames |-> MaxNbPkt, signals |-> FALSE,
                payloads |-> {<<68>>, LongPayload}, files |-> {NoFile}, times |-> {0}]}]

\* what a run of the transmit utility (util_tx_test.c) did so far: frames
\* lgw_send accepted, calls of lgw_stop, calls of lgw_send made while a
\* shutdown flag was 1, and what made main return EXIT_FAILURE
NoTx == [sent |-> 0, stops |-> 0, late |-> 0, failure |-> "none"]

\* the transmit utility is not the program that runs
TxAbsent ==
    /\ tx_pc = "absent"
    /\ repeat = -1
    /\ cycle_count = 0
    /\ txpkt = [payload4 |-> 42, payload5 |-> 42]
    /\ tx_rc = NotReturned
    /\ tx = NoTx

\* state of the process and of its environment before main runs
Loaded ==
    /\ todo = <<>>
    /\ cur = "none"
    /\ i = 0
    /\ conf_rc = 0
    /\ sx_rc = NotReturned
    /\ exec_rc = 0
    /\ lgwm = 0
    /\ gw = NoGateway
    /\ cfg = [rf |-> [n \in RfSlots |-> [set |-> FALSE, rec |-> ZeroRf]],
              ifc |-> [n \in IfSlots |-> [set |-> FALSE, rec |-> ZeroIf]]]
    /\ run = "idle"
    /\ log_file = "null"
    /\ quit_sig = 0
    /\ exit_sig = 0
    /\ nb_pkt = 0
    /\ corrupt_pkt_count = 0
    /\ status = 0
    /\ lastObj = NoObject
    /\ lastCall = NoCall
    /\ hist = [rf |-> [n \in RfSlots |-> <<>>], ifc |-> [n \in IfSlots |-> <<>>]]
    /\ opened = {}
    /\ trace = [starts |-> 0, stops |-> 0, stopRes |-> "none", closes |-> 0,
                pollFailed |-> FALSE, badRun |-> 0, diags |-> 0, diagsInRun |-> 0,
                lastFrame |-> "none", exitTested |-> -1, frames |-> 0,
                lastConn |-> 0, requested |-> 0, pollsAfterFlag |-> 0,
                lateFrames |-> 0]
    /\ loopExit = [left |-> FALSE, quit |-> 0, exit |-> 0]
    /\ p = NoFrame
    /\ recvBuff = <<>>
    /\ socks = 0
    /\ fwd = NoForward
    /\ fatal = "none"
    /\ lgwm_str = <<>>
    /\ log_file_name = LogFileName(<<>>, IsoDate(0))
    /\ log_start_time = 0
    /\ disk = [before |-> NoFile, now |-> NoFile]

Init ==
    /\ pc = "setupconf"
    /\ \E sc \in ConfScenarios \cup RunScenarios \cup FwdScenarios \cup LogScenarios
                   \cup LongScenarios :
         /\ files = sc.files
         /\ budget = sc.budget
    /\ probe = NoProbe
    /\ Loaded
    /\ TxAbsent

\* the steps of the thread of the process
Thread ==
    \/ Setupconf
    \/ ParseSxOpen
    \/ ParseRadio
    \/ ParseMulti
    \/ ParseStd
    \/ ParseFsk
    \/ ParseGateway
    \/ MainAfterConf
    \/ OpenLog
    \/ ExecuteStart
    \/ LoopTest
    \/ Receive
    \/ Frame
    \/ Socket
    \/ Connect
    \/ Write
    \/ Close
    \/ AfterLoop
    \/ CloseLog
    \/ MainExit

\* a step of the thread, or the delivery of a signal to the handler
Next ==
    \/ Thread
    \/ Signal

Spec == Init /\ [][Next]_vars

\* Runs in which the thread is not stopped for ever: every call it makes
\* returns and it is scheduled again; signals may or may not be delivered.
\* The runs are those with frames, payloads and signals.
InitLive ==
    /\ pc = "setupconf"
    /\ \E sc \in FwdScenarios :
         /\ files = sc.files
         /\ budget = sc.budget
    /\ probe = NoProbe
    /\ Loaded
    /\ TxAbsent

SpecLive == InitLive /\ [][Next]_vars /\ WF_vars(Thread)


(* ------------------------------------------------------------------ *)
(* The bandwidth and data-rate lookups applied on their own            *)
(* ------------------------------------------------------------------ *)

\* values of the bandwidth field: around every threshold, and the extremes
BwProbe == {0, 1, 7799, 7800, 7801, 15599, 15600, 15601, 31199, 31200, 31201,
            62499, 62500, 62501, 124999, 125000, 125001, 249999, 250000,
            250001, 499999, 500000, 500001, 1000000, 2147483647}
\* values of the spread_factor field
SfProbe == 0 .. 20 \cup {125000, 2147483647}

\* an enabled chan_FSK object whose bandwidth field is bw
FskObjectWith(bw) ==
    [present |-> TRUE, enable |-> "true", radio |-> JNum(0), if |-> JNum(-200000),
     bandwidth |-> JNum(bw), datarate |-> JNum(50000)]
\* an enabled chan_Lora_std object with the given bandwidth and spread_factor
StdObjectWith(bw, sf) ==
    [present |-> TRUE, enable |-> "true", radio |-> JNum(0), if |-> JNum(-200000),
     bandwidth |-> JNum(bw), spread_factor |-> JNum(sf)]

InitMap ==
    /\ pc = "lookup"
    /\ files = [d \in Doc |-> FALSE]
    /\ budget = [objects |-> 0, frames |-> 0, signals |-> FALSE,
                 payloads |-> {<<65>>}, files |-> {NoFile}, times |-> {0}]
    /\ Loaded
    /\ TxAbsent
    /\ \/ \E a \in BwProbe, b \in BwProbe :
            probe = [NoProbe EXCEPT !.fn = "fsk_bw", !.a = a, !.b = b]
       \/ \E a \in BwProbe :
            probe = [NoProbe EXCEPT !.fn = "lora_bw", !.a = a, !.b = a]
       \/ \E a \in SfProbe :
            probe = [NoProbe EXCEPT !.fn = "lora_sf", !.a = a, !.b = a]

progVars == <<pc, i, status, budget, fatal, confVars, loopVars, sigVars, fwdVars, logVars,
              txVars>>

\* the bandwidth of the record built for chan_FSK (lines 246-254)
ApplyFskBandwidth ==
    /\ probe.fn = "fsk_bw" /\ ~probe.done
    /\ probe' = [probe EXCEPT !.done = TRUE,
                              !.outA = FskRecord(FskObjectWith(probe.a)).bandwidth,
                              !.outB = FskRecord(FskObjectWith(probe.b)).bandwidth]
    /\ UNCHANGED progVars

\* the bandwidth of the record built for chan_Lora_std (lines 205-211)
ApplyLoRaBandwidth ==
    /\ probe.fn = "lora_bw" /\ ~probe.done
    /\ probe' = [probe EXCEPT !.done = TRUE,
                              !.outA = StdRecord(StdObjectWith(probe.a, 9)).bandwidth,
                              !.outB = StdRecord(StdObjectWith(probe.b, 9)).bandwidth]
    /\ UNCHANGED progVars

\* the data rate of the record built for chan_Lora_std (lines 212-221)
ApplyLoRaDatarate ==
    /\ probe.fn = "lora_sf" /\ ~probe.done
    /\ probe' = [probe EXCEPT !.done = TRUE,
                              !.outA = StdRecord(StdObjectWith(125000, probe.a)).datarate,
                              !.outB = StdRecord(StdObjectWith(125000, probe.b)).datarate]
    /\ UNCHANGED progVars

NextMap ==
    \/ ApplyFskBandwidth
    \/ ApplyLoRaBandwidth
    \/ ApplyLoRaDatarate

SpecMap == InitMap /\ [][NextMap]_vars


(* ------------------------------------------------------------------ *)
(* The transmit utility (util_tx_test.c), a program of its own          *)
(* ------------------------------------------------------------------ *)

\* cycle_count is a uint16_t (line 127)
U16(n) == n % 65536
\* (uint8_t) of a value
U8(n) == n % 256

\* the -x option of the command line: not given, or given with a text that
\* sscanf "%i" does not convert (scanned = 0) or converts to xi (scanned = 1)
NoRepeatArg == [given |-> FALSE, scanned |-> 0, xi |-> 0]
RepeatArgs ==
    {NoRepeatArg, [given |-> TRUE, scanned |-> 0, xi |-> 0]}
    \cup [given : {TRUE}, scanned : {1}, xi : {-2, -1, 0, 1, 2, 65536}]

\* lines 117 and 214-223: the repeat count, -1 by default
TxArgs ==
    /\ tx_pc = "args"
    /\ \E arg \in RepeatArgs :
         IF arg.given /\ (arg.scanned # 1 \/ arg.xi < -1)
         THEN /\ tx_rc' = EXIT_FAILURE
              /\ tx' = [tx EXCEPT !.failure = "args"]
              /\ tx_pc' = "exited"
              /\ UNCHANGED repeat
         ELSE /\ repeat' = IF arg.given THEN arg.xi ELSE -1
              /\ tx_pc' = "start"
              /\ UNCHANGED <<tx_rc, tx>>
    /\ UNCHANGED <<cycle_count, txpkt>>
    /\ UNCHANGED <<pc, i, status, budget, probe, fatal, confVars, loopVars, sigVars,
                   fwdVars, logVars>>

\* lines 246-261 and 293-296: the handlers are installed, the Hardware
\* Boundary is started, the payload is filled with its text ("TEST**abc...",
\* bytes 4 and 5 are '*') and the counter is cleared
TxStart ==
    /\ tx_pc = "start"
    /\ \E started \in {LGW_HAL_SUCCESS, LGW_HAL_ERROR} :
         IF started = LGW_HAL_SUCCESS
         THEN /\ tx_pc' = "loop"
              /\ cycle_count' = 0
              /\ UNCHANGED <<tx_rc, tx>>
         ELSE /\ tx_rc' = EXIT_FAILURE
              /\ tx' = [tx EXCEPT !.failure = "start"]
              /\ tx_pc' = "exited"
              /\ UNCHANGED cycle_count
    /\ UNCHANGED <<repeat, txpkt>>
    /\ UNCHANGED <<pc, i, status, budget, probe, fatal, confVars, loopVars, sigVars,
                   fwdVars, logVars>>

\* line 297: the test of the while
TxContinues == repeat = -1 \/ cycle_count < repeat

\* lines 297-310: the test of the while, the counter, bytes 4 and 5 of the
\* payload, and lgw_send
TxCycle ==
    /\ tx_pc = "loop"
    /\ IF TxContinues
       THEN /\ tx.sent < MaxTxFrames
            /\ cycle_count' = U16(cycle_count + 1)
            /\ txpkt' = [payload4 |-> U8(cycle_count' \div 256),
                         payload5 |-> cycle_count' % 256]
            /\ \E sent \in {LGW_HAL_SUCCESS, LGW_HAL_ERROR} :
                 IF sent = LGW_HAL_SUCCESS
                 THEN /\ tx' = [tx EXCEPT !.sent = @ + 1,
                                          !.late = @ + (IF quit_sig = 1 \/ exit_sig = 1
                                                        THEN 1 ELSE 0)]
                      /\ tx_pc' = "wait"
                      /\ UNCHANGED tx_rc
                 ELSE /\ tx' = [tx EXCEPT !.failure = "send",
                                          !.late = @ + (IF quit_sig = 1 \/ exit_sig = 1
                                                        THEN 1 ELSE 0)]
                      /\ tx_rc' = EXIT_FAILURE
                      /\ tx_pc' = "exited"
       ELSE /\ tx_pc' = "stop"
            /\ UNCHANGED <<cycle_count, txpkt, tx_rc, tx>>
    /\ UNCHANGED repeat
    /\ UNCHANGED <<pc, i, status, budget, probe, fatal, confVars, loopVars, sigVars,
                   fwdVars, logVars>>

\* lines 313-325: the wait for the end of the transmission (the Hardware
\* Boundary reports TX_FREE), the pause, and the test of the shutdown flags
TxWait ==
    /\ tx_pc = "wait"
    /\ tx_pc' = IF quit_sig = 1 \/ exit_sig = 1 THEN "stop" ELSE "loop"
    /\ UNCHANGED <<repeat, cycle_count, txpkt, tx_rc, tx>>
    /\ UNCHANGED <<pc, i, status, budget, probe, fatal, confVars, loopVars, sigVars,
                   fwdVars, logVars>>

\* lines 329-332: the Hardware Boundary is stopped and main returns
TxStop ==
    /\ tx_pc = "stop"
    /\ tx' = [tx EXCEPT !.stops = @ + 1]
    /\ tx_rc' = EXIT_SUCCESS
    /\ tx_pc' = "exited"
    /\ UNCHANGED <<repeat, cycle_count, txpkt>>
    /\ UNCHANGED <<pc, i, status, budget, probe, fatal, confVars, loopVars, sigVars,
                   fwdVars, logVars>>

\* lines 71-77 of util_tx_test.c: the handler, installed from line 246 on
tx_sig_handler(sigio) ==
    /\ tx_pc \in {"loop", "wait", "stop"}
    /\ IF sigio = "SIGQUIT"
       THEN quit_sig' = 1 /\ exit_sig' = exit_sig
       ELSE IF sigio = "SIGINT" \/ sigio = "SIGTERM"
            THEN exit_sig' = 1 /\ quit_sig' = quit_sig
            ELSE UNCHANGED <<quit_sig, exit_sig>>
    /\ UNCHANGED <<pc, i, status, budget, probe, fatal, confVars, loopVars, fwdVars,
                   logVars, txVars>>

TxSignal == \E sigio \in Signals : tx_sig_handler(sigio)

\* the utility before main runs; the receive program is not running
InitTx ==
    /\ pc = "absent"
    /\ files = [d \in Doc |-> FALSE]
    /\ budget = [objects |-> 0, frames |-> 0, signals |-> FALSE,
                 payloads |-> {<<65>>}, files |-> {NoFile}, times |-> {0}]
    /\ probe = NoProbe
    /\ Loaded
    /\ tx_pc = "args"
    /\ repeat = -1
    /\ cycle_count = 0
    /\ txpkt = [payload4 |-> 42, payload5 |-> 42]
    /\ tx_rc = NotReturned
    /\ tx = NoTx

NextTx ==
    \/ TxArgs
    \/ TxStart
    \/ TxCycle
    \/ TxWait
    \/ TxStop
    \/ TxSignal

SpecTx == InitTx /\ [][NextTx]_vars


(* ------------------------------------------------------------------ *)
(* Properties                                                          *)
(* ------------------------------------------------------------------ *)

\* execute has returned after leaving its loop on a shutdown flag
ReturnedAfterLoop == pc \in {"main_exit", "exited"} /\ loopExit.left

\* the loop test saw the abrupt flag alone / saw the graceful flag
LeftOnQuitOnly == loopExit.left /\ loopExit.quit = 1 /\ loopExit.exit = 0
LeftOnExit == loopExit.left /\ loopExit.exit = 1

NoTeardown == trace.stops = 0 /\ trace.closes = 0 /\ log_file = "open"
Teardown == trace.stops = 1 /\ trace.closes = 1 /\ log_file = "closed"
               /\ exec_rc = EXIT_SUCCESS
StopBeforeClose == (trace.closes > 0 \/ pc = "fclose") => trace.stops = 1

\* C1 as stated: once execute has returned, a loop left on the abrupt flag
\* alone has had no stop() and no close of the log; a loop left on the
\* graceful flag has had stop() and then the close, and execute returned
\* success whatever stop() reported.
C1_AsStated ==
    /\ StopBeforeClose
    /\ ReturnedAfterLoop /\ LeftOnQuitOnly => NoTeardown
    /\ ReturnedAfterLoop /\ LeftOnExit => Teardown

\* C1 amended: a loop left on the abrupt flag alone has had no stop() and no
\* close of the log provided the graceful flag is still clear when line 463
\* tests it; a loop left on the graceful flag has had stop() and then the
\* close, and execute returned success whatever stop() reported.
C1_Shutdown ==
    /\ StopBeforeClose
    /\ ReturnedAfterLoop /\ LeftOnQuitOnly /\ trace.exitTested = 0 => NoTeardown
    /\ ReturnedAfterLoop /\ LeftOnExit => Teardown

\* reached: execute returned after SIGQUIT alone, without any teardown
C1_Witness ==
    /\ pc = "exited" /\ LeftOnQuitOnly /\ trace.exitTested = 0
    /\ quit_sig = 1 /\ NoTeardown /\ run = "started" /\ status = EXIT_SUCCESS

\* C2: the counter is 0 right after a valid frame and otherwise counts the
\* non-valid frames since the last valid one; the diagnostic is printed in
\* the step that takes the counter from 9 to 10 and in no other step, so a
\* run of non-valid frames has had one diagnostic once it is 10 long and none
\* before.
C2_Watchdog ==
    /\ [](/\ corrupt_pkt_count = trace.badRun
          /\ trace.lastFrame = "valid" => corrupt_pkt_count = 0
          /\ trace.diagsInRun = IF trace.badRun >= 10 THEN 1 ELSE 0)
    /\ [][/\ trace'.diags \in {trace.diags, trace.diags + 1}
          /\ (trace'.diags = trace.diags + 1)
               <=> (corrupt_pkt_count = 9 /\ corrupt_pkt_count' = 10)]_vars

\* reached: ten non-valid frames, then a valid one: one diagnostic, counter 0
C2_Witness ==
    /\ trace.diags = 1 /\ trace.lastFrame = "valid" /\ corrupt_pkt_count = 0
    /\ budget.frames = MaxFrames - 11


(* --- configuration mapper ---------------------------------------- *)

SlotPcs == {"sx_rf", "sx_multi", "sx_std", "sx_fsk"}

Docs(calls) == {calls[k].doc : k \in DOMAIN calls}
Accepted(calls) == SelectSeq(calls, LAMBDA c : c.res = LGW_HAL_SUCCESS)
Last(seq) == seq[Len(seq)]

RECURSIVE SumLen(_, _)
SumLen(f, n) == IF n < 0 THEN 0 ELSE Len(f[n]) + SumLen(f, n - 1)
\* number of configuration calls made so far
TotalCalls == SumLen(hist.rf, LGW_RF_CHAIN_NB - 1) + SumLen(hist.ifc, FSK_CHAN)

\* C3: with a readable debug document, the JSON reader opens no other
\* document, only the debug document is parsed, and every configuration call
\* comes from it, whether or not the global and local documents exist.
C3_DebugOnly ==
    files["debug"] =>
        /\ opened \subseteq {"debug"}
        /\ pc \in SlotPcs \cup {"sx_open", "gw_open"} => cur = "debug"
        /\ \A n \in RfSlots : Docs(hist.rf[n]) \subseteq {"debug"}
        /\ \A n \in IfSlots : Docs(hist.ifc[n]) \subseteq {"debug"}

\* reached: all three documents readable, load finished, calls made
C3_Witness ==
    /\ files["debug"] /\ files["global"] /\ files["local"]
    /\ pc = "open_log" /\ opened = {"debug"} /\ TotalCalls = MaxObjects

\* the configuration the Hardware Boundary holds after the calls of a slot:
\* the last accepted record, or nothing
HoldsLastAccepted(calls, held) ==
    IF Accepted(calls) = <<>>
    THEN ~held.set
    ELSE held.set /\ held.rec = Last(Accepted(calls)).rec

GlobalThenLocal(calls) ==
    \A j \in DOMAIN calls, k \in DOMAIN calls :
        calls[j].doc = "local" /\ calls[k].doc = "global" => k < j

CascadeLoaded == ~files["debug"] /\ files["global"] /\ files["local"]
                    /\ pc = "main_conf"

C4_SlotAsStated(calls, held) ==
    /\ GlobalThenLocal(calls)
    /\ {"global", "local"} \subseteq Docs(calls) /\ Accepted(calls) # <<>>
         => /\ Last(Accepted(calls)).doc = "local"
            /\ held.rec = Last(Accepted(calls)).rec
    /\ Docs(calls) = {"global"} /\ Accepted(calls) # <<>>
         => held.set /\ held.rec = Last(Accepted(calls)).rec

\* C4 as stated: after a load of the global and the local document, the
\* calls of the global document precede those of the local document and, for
\* a slot both configure, the last record the Hardware Boundary accepted is
\* the local one; a slot of the global document alone holds the global record.
C4_AsStated ==
    CascadeLoaded =>
        /\ \A n \in RfSlots : C4_SlotAsStated(hist.rf[n], cfg.rf[n])
        /\ \A n \in IfSlots : C4_SlotAsStated(hist.ifc[n], cfg.ifc[n])

C4_Slot(calls, held) ==
    /\ GlobalThenLocal(calls)
    /\ "local" \in Docs(calls) => Last(calls).doc = "local"
    /\ HoldsLastAccepted(calls, held)

\* C4 amended: without debug document, no call of the global document follows
\* a call of the local document; for a slot both configure, the last record
\* submitted is the local one, and the Hardware Boundary holds it when it
\* accepted it and otherwise keeps what it held before (the global record if
\* it accepted that one); a slot of the global document alone holds the global
\* record when the Hardware Boundary accepted it.
C4_Cascade ==
    /\ [](~files["debug"] =>
            /\ \A n \in RfSlots : C4_Slot(hist.rf[n], cfg.rf[n])
            /\ \A n \in IfSlots : C4_Slot(hist.ifc[n], cfg.ifc[n]))
    /\ [][lastCall'.made /\ lastCall'.doc = "global" /\ TotalCalls' # TotalCalls
            => /\ \A n \in RfSlots : "local" \notin Docs(hist.rf[n])
               /\ \A n \in IfSlots : "local" \notin Docs(hist.ifc[n])]_vars

\* reached: radio_0 configured by both documents, both accepted, differently
C4_Witness ==
    /\ CascadeLoaded
    /\ Len(hist.rf[0]) = 2
    /\ hist.rf[0][1].doc = "global" /\ hist.rf[0][1].res = LGW_HAL_SUCCESS
    /\ hist.rf[0][2].doc = "local" /\ hist.rf[0][2].res = LGW_HAL_SUCCESS
    /\ hist.rf[0][1].rec # hist.rf[0][2].rec
    /\ cfg.rf[0].rec = hist.rf[0][2].rec

\* C5: when no document is readable, setupconf returns a failure having
\* opened no document and made no configuration call, and the process ends
\* with a failure status without opening the log or starting the radio.
C5_NoDocument ==
    (\A d \in Doc : ~files[d]) =>
        /\ pc \in {"setupconf", "main_conf", "exited"}
        /\ pc # "setupconf" => conf_rc = EXIT_FAILURE
        /\ pc = "exited" => status = EXIT_FAILURE
        /\ opened = {} /\ TotalCalls = 0
        /\ run = "idle" /\ trace.starts = 0 /\ log_file = "null"

\* reached: no document readable, process ended
C5_Witness ==
    /\ \A d \in Doc : ~files[d]
    /\ pc = "exited" /\ status = EXIT_FAILURE /\ conf_rc = EXIT_FAILURE

\* C6: a slot object whose `enable` is absent or not a boolean is submitted
\* as a record with enable false and every other field zero.
C6_EnableDefault ==
    lastObj.present /\ lastObj.enable \in {"absent", "nonbool"} =>
        /\ lastCall.made
        /\ lastCall.rec.enable = FALSE
        /\ lastCall.rec.freq_hz = 0
        /\ lastCall.kind = "if" =>
              /\ lastCall.rec.rf_chain = 0
              /\ lastCall.rec.bandwidth = 0
              /\ lastCall.rec.datarate = 0

\* reached: a chan_Lora_std object with all its fields but a non-boolean enable
C6_Witness ==
    /\ lastObj.present /\ lastObj.enable = "nonbool"
    /\ lastCall.made /\ lastCall.kind = "if" /\ lastCall.index = STD_CHAN
    /\ lastObj.bandwidth = JNum(125000) /\ lastObj.spread_factor = JNum(9)
    /\ lastObj.radio = JNum(2)
    /\ lastCall.rec = ZeroIf

\* the slot a mapper position stands for
SlotKind(at) == IF at = "sx_rf" THEN "rf" ELSE "if"
SlotIndex(at, k) == IF at = "sx_std" THEN STD_CHAN
                   ELSE IF at = "sx_fsk" THEN FSK_CHAN ELSE k

\* C7: a mapper step on a slot without object makes no call and leaves the
\* Hardware Boundary configuration as it is; a step on a slot with an object
\* makes one call, for that slot; no other step makes a call.
C7_AbsentUntouched ==
    [][IF pc \in SlotPcs /\ lastObj'.present
       THEN /\ TotalCalls' = TotalCalls + 1
            /\ lastCall'.made
            /\ lastCall'.kind = SlotKind(pc)
            /\ lastCall'.index = SlotIndex(pc, i)
            /\ \A n \in RfSlots :
                 (SlotKind(pc) = "rf" /\ n = i) \/ hist'.rf[n] = hist.rf[n]
            /\ \A n \in IfSlots :
                 (SlotKind(pc) = "if" /\ n = SlotIndex(pc, i))
                    \/ hist'.ifc[n] = hist.ifc[n]
       ELSE /\ hist' = hist
            /\ cfg' = cfg
            /\ ~lastCall'.made]_vars

\* reached (scenario A): a local document alone, with radio_0 enabled at
\* 868100000 Hz and chan_Lora_std at 125 kHz, SF9: two calls
C7_Witness ==
    /\ pc = "main_conf" /\ opened = {"local"} /\ TotalCalls = 2
    /\ Len(hist.rf[0]) = 1
    /\ hist.rf[0][1].rec = [enable |-> TRUE, freq_hz |-> 868100000]
    /\ Len(hist.ifc[STD_CHAN]) = 1
    /\ hist.ifc[STD_CHAN][1].rec =
         [enable |-> TRUE, rf_chain |-> 0, freq_hz |-> -200000,
          bandwidth |-> BW_125KHZ, datarate |-> DR_LORA_SF9]

\* the position that follows a slot in the order of the mapper
NextSlot(at, k) ==
    IF at = "sx_rf"
    THEN IF k + 1 < LGW_RF_CHAIN_NB THEN <<"sx_rf", k + 1>> ELSE <<"sx_multi", 0>>
    ELSE IF at = "sx_multi"
    THEN IF k + 1 < LGW_MULTI_NB THEN <<"sx_multi", k + 1>> ELSE <<"sx_std", k + 1>>
    ELSE IF at = "sx_std" THEN <<"sx_fsk", k>>
    ELSE <<"gw_open", k>>

\* C8: a rejected configuration call leaves the Hardware Boundary
\* configuration as it was and the mapper goes on with the slot that follows,
\* as after an accepted call; the mapper leaves the slots only after the last
\* one, returning 0, and the load is not failed.
C8_RejectionNonFatal ==
    /\ [][(pc \in SlotPcs) =>
            /\ pc' = NextSlot(pc, i)[1]
            /\ i' = NextSlot(pc, i)[2]
            /\ lastCall'.made /\ lastCall'.res = LGW_HAL_ERROR => cfg' = cfg
            /\ pc' = "gw_open" => sx_rc' = Returned(0)]_vars
    /\ [](pc \in SlotPcs => conf_rc = 0)

\* reached: radio_0 rejected, chan_FSK submitted later, load successful
C8_Witness ==
    /\ pc = "open_log" /\ conf_rc = 0
    /\ Len(hist.rf[0]) = 1 /\ hist.rf[0][1].res = LGW_HAL_ERROR
    /\ ~cfg.rf[0].set
    /\ Len(hist.ifc[FSK_CHAN]) = 1


(* --- bandwidth and data-rate lookup ------------------------------ *)

\* the FSK buckets in ascending order: upper bound in Hz and code
FskBuckets == << [bound |-> 7800, code |-> BW_7K8HZ],
                 [bound |-> 15600, code |-> BW_15K6HZ],
                 [bound |-> 31200, code |-> BW_31K2HZ],
                 [bound |-> 62500, code |-> BW_62K5HZ],
                 [bound |-> 125000, code |-> BW_125KHZ],
                 [bound |-> 250000, code |-> BW_250KHZ],
                 [bound |-> 500000, code |-> BW_500KHZ] >>

\* code of the first bucket whose bound is >= bw, undefined when there is none
FirstBucket(bw) ==
    LET fit == {k \in DOMAIN FskBuckets : FskBuckets[k].bound >= bw} IN
    IF fit = {} THEN BW_UNDEFINED
    ELSE FskBuckets[CHOOSE k \in fit : \A j \in fit : k <= j].code

\* rank of a code in the ascending order of the buckets, undefined last
BucketRank(code) ==
    IF \E k \in DOMAIN FskBuckets : FskBuckets[k].code = code
    THEN CHOOSE k \in DOMAIN FskBuckets : FskBuckets[k].code = code
    ELSE Len(FskBuckets) + 1

\* C9: the bandwidth submitted for chan_FSK is the first bucket of 7800,
\* 15600, 31200, 62500, 125000, 250000, 500000 Hz whose bound is >= the
\* requested bandwidth, undefined above 500000, and is monotonic.
C9_FskBuckets ==
    probe.done /\ probe.fn = "fsk_bw" =>
        /\ probe.outA = FirstBucket(probe.a)
        /\ probe.outB = FirstBucket(probe.b)
        /\ probe.a <= probe.b => BucketRank(probe.outA) <= BucketRank(probe.outB)

\* reached: 1 Hz gives the 7.8 kHz bucket, 500001 Hz gives undefined
C9_Witness ==
    /\ probe.done /\ probe.fn = "fsk_bw"
    /\ probe.a = 1 /\ probe.outA = BW_7K8HZ
    /\ probe.b = 500001 /\ probe.outB = BW_UNDEFINED

LoRaBandwidths == (125000 :> BW_125KHZ) @@ (250000 :> BW_250KHZ)
                    @@ (500000 :> BW_500KHZ)
LoRaSpreadFactors == (7 :> DR_LORA_SF7) @@ (8 :> DR_LORA_SF8) @@ (9 :> DR_LORA_SF9)
                       @@ (10 :> DR_LORA_SF10) @@ (11 :> DR_LORA_SF11)
                       @@ (12 :> DR_LORA_SF12)

\* C10: the bandwidth submitted for chan_Lora_std is the 125/250/500 kHz
\* code for a bandwidth field of exactly 125000, 250000 or 500000 and
\* undefined for any other value; its data rate is the SF7..SF12 code for a
\* spread_factor of exactly 7..12 and undefined for any other value.
C10_LoRaExact ==
    /\ probe.done /\ probe.fn = "lora_bw" =>
          probe.outA = IF probe.a \in DOMAIN LoRaBandwidths
                       THEN LoRaBandwidths[probe.a] ELSE BW_UNDEFINED
    /\ probe.done /\ probe.fn = "lora_sf" =>
          probe.outA = IF probe.a \in DOMAIN LoRaSpreadFactors
                       THEN LoRaSpreadFactors[probe.a] ELSE DR_UNDEFINED

\* reached: a bandwidth of 124999 Hz gives undefined
C10_Witness ==
    /\ probe.done /\ probe.fn = "lora_bw"
    /\ probe.a = 124999 /\ probe.outA = BW_UNDEFINED


(* --- frame forwarder ---------------------------------------------- *)

\* the thread is between two frames: none is being forwarded
BetweenFrames == pc \in {"loop", "receive", "frame", "after_loop", "fclose"}

\* the forwarding of the frame p went through: socket, connect, close
Forwarded ==
    fwd.sockets = 1 /\ fwd.connects = <<serv_addr>> /\ fwd.closes = 1

\* C11: the only connections are those of valid frames, one per frame, to
\* 127.0.0.1:1680; the connection of a frame is closed before the next frame
\* is processed, so that at most one descriptor is open at any time; a frame
\* of another status gets no socket and no connection; and each connection
\* is that of the frame returned last, later in the order of the frames than
\* the connection before.
C11_OneConnectionPerValidFrame ==
    /\ [](/\ socks \in {0, 1}
          /\ BetweenFrames => socks = 0
          /\ Len(fwd.connects) <= 1
          /\ \A k \in DOMAIN fwd.connects :
                fwd.connects[k] = [sin_family |-> "AF_INET", sin_port |-> 1680,
                                   sin_addr |-> <<127, 0, 0, 1>>]
          /\ p.status # STAT_CRC_OK => fwd = NoForward
          /\ BetweenFrames /\ p.status = STAT_CRC_OK => Forwarded)
    /\ [][fwd'.connects # fwd.connects /\ fwd'.connects # <<>>
            => /\ p.status = STAT_CRC_OK
               /\ fwd.connects = <<>>
               /\ trace.lastConn < trace.frames
               /\ trace'.lastConn = trace.frames]_vars

\* reached: three frames returned, the second valid and forwarded, the third
\* not valid and not forwarded
C11_Witness ==
    /\ pc = "loop" /\ trace.frames = 3 /\ trace.lastConn = 2
    /\ p.status = STAT_CRC_BAD /\ fwd = NoForward /\ socks = 0

\* C12: for a frame whose connection was made, at most one write is issued;
\* once the connection is closed, a frame of size > 0 has had one write, of
\* its first size payload bytes, whatever earlier frames left in recvBuff,
\* and a frame of size 0 has had no write, its connect and close being done.
C12_WrittenBytes ==
    /\ Len(fwd.writes) <= 1
    /\ \A k \in DOMAIN fwd.writes :
          /\ Len(fwd.writes[k]) = p.size
          /\ fwd.writes[k] = p.payload
    /\ fwd.closes = 1 /\ p.size > 0 => fwd.writes = <<p.payload>>
    /\ fwd.closes = 1 /\ p.size = 0 => fwd.writes = <<>> /\ Forwarded

\* reached: a frame of one byte forwarded after a frame of two bytes, whose
\* second byte is still in recvBuff
C12_Witness ==
    /\ fwd.closes = 1 /\ p.payload = <<68>> /\ recvBuff = <<68, 67>>
    /\ fwd.writes = << <<68>> >>

\* C13 as stated: once socket, connect or write has failed for a frame, no
\* further frame is processed and the process ends with a non-zero status.
C13_ForwarderFatal ==
    fwd.failure # "none"
        => /\ pc \in {"close", "main_exit", "exited"}
           /\ pc \in {"main_exit", "exited"} => exec_rc # 0
           /\ pc = "exited" => status # 0


(* --- acquisition loop --------------------------------------------- *)

\* C14: a poll asks for at most 16 frames and returns no more; once a poll
\* has failed, execute has returned a non-zero value from that very step, so
\* that no poll follows, no frame is processed after it, and the process
\* ends with a non-zero status.
C14_PollFailureFatal ==
    /\ [](/\ trace.requested <= 16
          /\ nb_pkt <= trace.requested \/ trace.requested = 0
          /\ trace.pollFailed
                => /\ pc \in {"main_exit", "exited"}
                   /\ exec_rc # 0
                   /\ pc = "exited" => status # 0)
    /\ [][/\ trace'.pollFailed /\ ~trace.pollFailed
                => pc = "receive" /\ pc' = "main_exit" /\ exec_rc' # 0
          /\ trace.pollFailed
                => /\ trace'.frames = trace.frames
                   /\ fwd' = fwd
                   /\ socks' = socks]_vars

\* reached: a poll failed after two frames were processed, and the process
\* ended with a failure status
C14_Witness ==
    /\ trace.pollFailed /\ pc = "exited" /\ status = EXIT_FAILURE
    /\ trace.frames = 2 /\ trace.requested = 16

(* --- signal handler ----------------------------------------------- *)

\* everything but the two flags
NotFlags == <<pc, i, status, budget, probe, fatal, confVars, loopVars, fwdVars, logVars,
              txVars>>

\* C15: the handler run for SIGQUIT sets the abrupt flag and nothing else;
\* run for SIGINT or SIGTERM it sets the graceful flag and nothing else; a
\* flag changes in no other step, and never goes back once it is set.
C15_SignalFlags ==
    [][/\ sig_handler("SIGQUIT")
            => quit_sig' = 1 /\ exit_sig' = exit_sig /\ UNCHANGED NotFlags
       /\ sig_handler("SIGINT") \/ sig_handler("SIGTERM")
            => exit_sig' = 1 /\ quit_sig' = quit_sig /\ UNCHANGED NotFlags
       /\ <<quit_sig, exit_sig>>' # <<quit_sig, exit_sig>>
            => \E sigio \in Signals : sig_handler(sigio)
       /\ quit_sig = 1 => quit_sig' = 1
       /\ exit_sig = 1 => exit_sig' = 1]_vars

\* reached: both flags set before a poll, while a frame classified after the
\* first of them is being forwarded
C15_Witness ==
    /\ quit_sig = 1 /\ exit_sig = 1 /\ pc = "write"
    /\ trace.lateFrames = 1 /\ trace.pollsAfterFlag = 0


(* --- shutdown ------------------------------------------------------ *)

FlagSet == quit_sig = 1 \/ exit_sig = 1

\* the frame p is done with: the next frame of the batch, or the loop test
\* once the batch is finished
GoesOn ==
    /\ i' = i + 1
    /\ pc' = IF i + 1 < nb_pkt THEN "frame" ELSE "loop"

\* C16: with a shutdown flag set, the thread handles the batch as without:
\* each frame is classified, a valid frame goes through socket, connect,
\* write and close (unless socket or connect fails), and the frame after it
\* is taken until the batch is finished; the loop test that ends the loop on
\* the flag is reached with every frame of the batch classified and the last
\* valid one forwarded.
C16_BatchCompleted ==
    /\ [](loopExit.left /\ trace.frames > 0
             => /\ i = nb_pkt
                /\ p.status = STAT_CRC_OK => Forwarded)
    /\ [][FlagSet /\ <<pc, i>>' # <<pc, i>>
            => /\ pc = "frame" /\ p'.status = STAT_CRC_OK => pc' = "socket" /\ i' = i
               /\ pc = "frame" /\ p'.status # STAT_CRC_OK => GoesOn
               /\ pc = "socket" => pc' \in {"connect", "main_exit"}
               /\ pc = "connect" => pc' \in {"write", "main_exit"}
               /\ pc = "write" => pc' = "close"
               /\ pc = "close" => GoesOn]_vars

\* reached: the loop left on a flag that was set before the last two frames
\* of a batch of three were classified, the last one valid and forwarded
C16_Witness ==
    /\ pc = "after_loop" /\ loopExit.left /\ trace.pollsAfterFlag = 0
    /\ nb_pkt = 3 /\ i = 3 /\ trace.lateFrames = 2
    /\ p.status = STAT_CRC_OK /\ Forwarded

\* C17: once a shutdown flag is set the process ends, provided the thread
\* keeps running; and at most one poll is issued with a flag set.
C17_ShutdownLive ==
    /\ FlagSet ~> pc = "exited"
    /\ [](trace.pollsAfterFlag <= 1)
    /\ [](FlagSet /\ trace.pollsAfterFlag = 1 => pc # "receive")

\* reached: the process ended after a flag was set between the loop test and
\* the poll, the frames of that poll having been processed
C17_Witness ==
    /\ pc = "exited" /\ FlagSet /\ loopExit.left
    /\ trace.pollsAfterFlag = 1 /\ trace.lateFrames = 2


(* --- exit status --------------------------------------------------- *)

FatalConditions == {"noconf", "json", "fopen", "header", "start", "poll", "socket", "connect"}

\* C18: the process ends with status 0 exactly when the loop ended on a
\* shutdown flag, and with a non-zero status after each fatal condition: no
\* configuration document, a document that is not valid JSON, a failure to
\* open the log or to write its header, a failure of start, of a poll, of
\* socket or of connect.
C18_ExitStatus ==
    /\ fatal \in FatalConditions \cup {"none"}
    /\ pc = "exited"
          => /\ status = 0 <=> loopExit.left
             /\ fatal # "none" <=> status # 0
             /\ loopExit.left <=> fatal = "none"

\* reached: the process ended with a non-zero status on a connect failure
C18_Witness ==
    /\ pc = "exited" /\ fatal = "connect" /\ status = 1 /\ ~loopExit.left
    /\ fwd.failure = "connect" /\ trace.frames = 2

(* --- radio chain of a channel ------------------------------------- *)

\* C19 as stated: every enabled channel record submitted to the Hardware
\* Boundary names a radio chain below the number of radio chains.
C19_RadioIndexInRange ==
    \A n \in IfSlots : \A k \in DOMAIN hist.ifc[n] :
        hist.ifc[n][k].rec.enable => hist.ifc[n][k].rec.rf_chain < LGW_RF_CHAIN_NB

(* --- log writer ---------------------------------------------------- *)

\* C20: the name of the log file is made of the gateway identity and of
\* nothing else, whatever the time; once the log is open, the file holds
\* what it held before, followed by what was written, which for a file that
\* did not exist is the header row of 16 columns; a failure to open the file
\* or to write the header ends the process with a failure status, the content
\* of the file being as before.
C20_LogOpen ==
    /\ Len(Header) = 16
    /\ pc \notin {"setupconf", "sx_open", "sx_rf", "sx_multi", "sx_std", "sx_fsk",
                  "gw_open", "main_conf", "open_log", "lookup", "crashed"}
       /\ fatal \notin {"noconf", "json"}
          => /\ log_file_name = [prefix |-> "pktlog_", id |-> HexDigits(lgwm, 16),
                                 date |-> <<>>, suffix |-> ".csv"]
             /\ Len(disk.now.rows) >= Len(disk.before.rows)
             /\ SubSeq(disk.now.rows, 1, Len(disk.before.rows)) = disk.before.rows
             /\ fatal \notin {"fopen", "header"}
                   => /\ log_file \in {"open", "closed"}
                      /\ disk.now.exists
                      /\ ~disk.before.exists => disk.now.rows = <<Header>>
             /\ fatal \in {"fopen", "header"}
                   => /\ pc = "exited" /\ status = EXIT_FAILURE
                      /\ disk.now.rows = disk.before.rows

\* reached: the log of gateway AB opened at a later time, over the file an
\* earlier run left
C20_Witness ==
    /\ pc = "execute" /\ log_file = "open" /\ lgwm = 171 /\ log_start_time = 86400
    /\ disk.before = EarlierLog /\ Len(disk.now.rows) = 3
    /\ log_file_name.id = <<0, 0, 0, 0, 0, 0, 0, 0, 0, 0, 0, 0, 0, 0, 10, 11>>


\* C21: the transmit utility started with a repeat count N >= 0 sends, when no
\* signal is delivered and no send fails, exactly N frames, frame k carrying
\* k in bytes 4 and 5 of its payload, then stops the Hardware Boundary and
\* exits with success; with N = -1 it only ends after a shutdown signal or a
\* send failure; after a shutdown signal at most one frame is sent.
C21_TxRepeat ==
    /\ repeat >= 0 => tx.sent <= repeat
    /\ tx_pc = "wait" => txpkt.payload4 * 256 + txpkt.payload5 = tx.sent
    /\ (tx_pc = "exited" /\ repeat >= 0 /\ quit_sig = 0 /\ exit_sig = 0
            /\ tx.failure = "none")
         => tx.sent = repeat /\ tx.stops = 1 /\ tx_rc = EXIT_SUCCESS
    /\ (tx_pc \in {"stop", "exited"} /\ repeat = -1 /\ tx.failure \notin {"args", "start"})
         => quit_sig = 1 \/ exit_sig = 1 \/ tx.failure = "send"
    /\ tx.late <= 1


\* C22: the copy of the payload of a valid frame writes only positions 0..255
\* of the staging buffer, whatever size the frame reports (the bytes written
\* so far never reach beyond the capacity of recvBuff).
C22_StagingBound == Len(recvBuff) <= RECVBUFF_SIZE


\* the text is a well-formed identity: hexadecimal digits only, at least one
WellFormedId(str) == str # <<>> /\ \A k \in 1 .. Len(str) : str[k] # NotHex
\* the number a text of hexadecimal digits stands for
RECURSIVE HexValue(_)
HexValue(str) ==
    IF str = <<>> THEN 0
    ELSE HexValue(SubSeq(str, 1, Len(str) - 1)) * 16 + str[Len(str)]

\* C23: after parse_gateway_configuration met a document with a gateway_conf
\* object, a gateway_ID that is absent or not hexadecimal leaves the identity
\* at zero, whatever it was before, and the process is not killed; a
\* well-formed gateway_ID sets the identity to its hexadecimal value.
C23_GatewayIdentity ==
    gw.section =>
        IF gw.given /\ WellFormedId(gw.text)
        THEN lgwm = HexValue(gw.text) /\ ~gw.killed
        ELSE lgwm = 0 /\ ~gw.killed


\* C24: every call of a configuration setter precedes start(); receive() is
\* called only once start() has succeeded and never after stop(); after a
\* failed start there is no call of receive() or stop() and the process
\* exits with failure; stop() is called at most once.
C24_Lifecycle ==
    [][/\ hist' # hist => trace.starts = 0
       /\ (pc = "receive" /\ pc' # pc) => (run = "started" /\ trace.stops = 0)
       /\ fatal' = "start"
            => /\ trace'.stops = 0 /\ trace'.requested = 0
               /\ exec_rc' = EXIT_FAILURE
               /\ pc' = "exited" => status' = EXIT_FAILURE
       /\ trace'.stops <= 1]_vars

\* reached: the process has exited with failure after a setter call and a
\* failed start, without any poll or stop
C24_Witness ==
    /\ pc = "exited" /\ fatal = "start" /\ status = EXIT_FAILURE
    /\ \E n \in RfSlots : hist.rf[n] # <<>>
    /\ trace.starts = 1 /\ trace.stops = 0 /\ trace.requested = 0

\* C25: a loop left with both shutdown flags set is followed by stop() and
\* the close of the log file; execute returns after the loop without stop()
\* and close only if the graceful flag was clear when the loop was left.
C25_GracefulWins ==
    /\ (ReturnedAfterLoop /\ loopExit.quit = 1 /\ loopExit.exit = 1)
         => (trace.stops = 1 /\ trace.closes = 1 /\ log_file = "closed")
    /\ (ReturnedAfterLoop /\ trace.stops = 0 /\ trace.closes = 0) => loopExit.exit = 0

\* reached: execute has returned after a loop left with both flags set, the
\* Hardware Boundary stopped and the log file closed
C25_Witness ==
    /\ ReturnedAfterLoop /\ loopExit.quit = 1 /\ loopExit.exit = 1
    /\ trace.stops = 1 /\ trace.closes = 1 /\ log_file = "closed"

=============================================================================
